---- MODULE Spec2Model ----
(***************************************************************************)
(* A model of moneypuck/moneypuck.py: the MoneyPuck scraper class, its     *)
(* Selenium Wire driver (capture buffer, current URL) and the upstream     *)
(* pages it reads.                                                         *)
(*                                                                         *)
(* Text that the code transforms (team codes, display names, alt           *)
(* attributes) is a sequence of one-character strings, so that upper(),    *)
(* lower() and dictionary lookups act on the characters.  URLs are         *)
(* sequences of tokens in which "=" is a token of its own.  Probabilities  *)
(* are integers in units of 1/1000.                                        *)
(***************************************************************************)
EXTENDS Integers, Sequences, FiniteSets, TLC

VARIABLES scope, driver, teams, teams_inv, requests, current_url, res

vars == <<scope, driver, teams, teams_inv, requests, current_url, res>>

--------------------------------------------------------------------------
(* Bounds *)

\* Most requests the capture buffer holds in the session specification.
MaxRequests == 4
\* Most game rows on a date page.
MaxRows == 2
\* Most rows of a captured csv.
MaxCsvRows == 2

--------------------------------------------------------------------------
(* Text *)

None == "None"

Lowers == <<"a","b","c","d","e","f","g","h","i","j","k","l","m",
            "n","o","p","q","r","s","t","u","v","w","x","y","z">>
Uppers == <<"A","B","C","D","E","F","G","H","I","J","K","L","M",
            "N","O","P","Q","R","S","T","U","V","W","X","Y","Z">>

Chars == {Lowers[i] : i \in DOMAIN Lowers} \cup {Uppers[i] : i \in DOMAIN Uppers} \cup {" "}

IndexIn(seq, c) == CHOOSE i \in DOMAIN seq : seq[i] = c

\* The upper-case and the lower-case form of every character.
UpperOf ==
    [c \in Chars |->
        IF \E i \in DOMAIN Lowers : Lowers[i] = c THEN Uppers[IndexIn(Lowers, c)] ELSE c]

LowerOf ==
    [c \in Chars |->
        IF \E i \in DOMAIN Uppers : Uppers[i] = c THEN Lowers[IndexIn(Uppers, c)] ELSE c]

upper_char(c) == UpperOf[c]

lower_char(c) == LowerOf[c]

\* str.upper()
upper(s) == [i \in DOMAIN s |-> upper_char(s[i])]

\* str.lower()
lower(s) == [i \in DOMAIN s |-> lower_char(s[i])]

\* The first letter in upper case, the rest as given: a mixed-case spelling.
capitalize(s) == [i \in DOMAIN s |-> IF i = 1 THEN upper_char(s[i]) ELSE s[i]]

--------------------------------------------------------------------------
(* The team directory, nhl_teams.yaml: abbreviation -> full name *)

CBJ == <<"c","b","j">>
TBL == <<"t","b","l">>
MTL == <<"m","t","l">>
VAN == <<"v","a","n">>
DET == <<"d","e","t">>
CHI == <<"c","h","i">>

nhl_teams_yaml ==
    (CBJ :> <<"c","o","l","u","m","b","u","s">>) @@
    (TBL :> <<"t","a","m","p","a"," ","b","a","y">>) @@
    (MTL :> <<"m","o","n","t","r","e","a","l">>) @@
    (VAN :> <<"v","a","n","c","o","u","v","e","r">>) @@
    (DET :> <<"d","e","t","r","o","i","t">>) @@
    (CHI :> <<"c","h","i","c","a","g","o">>)

\* {v: k for k, v in self.teams.items()}
invert(d) ==
    [v \in {d[k] : k \in DOMAIN d} |-> CHOOSE k \in DOMAIN d : d[k] = v]

NoTeams == [k \in {} |-> <<>>]

\* The alt attribute of each team's logo on the site: the full name in
\* upper case.
Alt == [t \in DOMAIN nhl_teams_yaml |-> upper(nhl_teams_yaml[t])]

--------------------------------------------------------------------------
(* The upstream site as the browser sees it *)

Today == "2021-01-24"

\* f"{self.base_url}/index.html?date={iso_date}"
DateUrl(iso_date) == <<"http://moneypuck.com/index.html?date", "=", iso_date>>

\* The address of a game page.  The site's own links carry the game id after
\* "id="; "path" is an address without any "=".
GameUrl(style, id) ==
    IF style = "query" THEN <<"http://moneypuck.com/g.htm?id", "=", id>>
    ELSE <<"http://moneypuck.com/g/", id>>

PowerUrl == <<"http://moneypuck.com/power.htm">>
PredictionsUrl == <<"http://moneypuck.com/predictions.htm">>

\* Numbers the percentage cells show, with float() of each in tenths.
PctNumbers ==
    ("54.3" :> 543) @@ ("45.7" :> 457) @@ ("33.4" :> 334) @@ ("66.7" :> 667)

\* A captured request: what was asked for (kind, id), the response body and
\* whether a navigation has happened since it was captured.
Request(kind, id, body) == [kind |-> kind, id |-> id, body |-> body, stale |-> FALSE]

NoBody == [valid |-> TRUE, rows |-> <<>>]
NoRequest == [kind |-> "none", id |-> <<>>, body |-> NoBody, stale |-> FALSE]

\* The requests the browser makes while loading each kind of page.
DatePageRequests(iso_date) == <<Request("page", <<"index.html", iso_date>>, NoBody)>>

GamePageRequests(id, env) ==
    <<Request("page", <<"g.htm", id>>, NoBody)>> \o
    (IF env.fetch
     THEN <<Request("playerData", <<id>>, env.body), Request("gameData", <<id>>, env.body)>>
     ELSE <<>>)

TablePageRequests(name, csv, env) ==
    <<Request("page", <<name>>, NoBody)>> \o
    (IF env.fetch THEN <<Request(csv, <<>>, env.body)>> ELSE <<>>)

\* A row of the date page's table, td by td: percentage, logo, -, logo,
\* percentage.  The logos are links once the game can be opened.
Row(away, home, pcts, clickable, id) ==
    [away |-> away, home |-> home, away_pct |-> <<pcts[1], "%">>,
     home_pct |-> <<pcts[2], "%">>, clickable |-> clickable, id |-> id]

\* The img elements of a date page in document order.
Logos(page) ==
    [i \in 1..(2 * Len(page)) |->
        LET r == page[(i + 1) \div 2] IN
        [row |-> (i + 1) \div 2,
         alt |-> Alt[IF i % 2 = 1 THEN r.away ELSE r.home],
         linked |-> r.clickable]]

--------------------------------------------------------------------------
(* The Selenium Wire driver *)

\* The driver's side of a call: capture buffer, address bar, and the calls
\* made on the driver during the current operation.
Machine == [requests |-> requests, current_url |-> current_url, log |-> <<>>]

MarkStale(reqs) == [i \in DOMAIN reqs |-> [reqs[i] EXCEPT !.stale = TRUE]]

\* del self.driver.requests
del_requests(m) == [m EXCEPT !.requests = <<>>, !.log = Append(@, "del")]

\* self.driver.get(url): load the page; its requests are captured.
driver_get(m, url, loaded) ==
    [m EXCEPT !.requests = MarkStale(@) \o loaded,
              !.current_url = url,
              !.log = Append(@, "get")]

\* element.click() on a link: the browser navigates to the link's target.
click(m, url, loaded) ==
    [m EXCEPT !.requests = MarkStale(@) \o loaded,
              !.current_url = url,
              !.log = Append(@, "click")]

\* A regex of _gen_stats_regex / _gen_events_regex or a fixed csv path
\* matches the requests of that csv kind for that id.
Matches(req, regex) == req.kind = regex.kind /\ req.id = regex.id

\* self.driver.wait_for_request(regex): the first captured request that
\* matches, TimeoutException when none does.
wait_for_request(m, regex) ==
    LET hits == {i \in DOMAIN m.requests : Matches(m.requests[i], regex)} IN
    [m |-> [m EXCEPT !.log = Append(@, "wait_for_request")],
     err |-> IF hits = {} THEN "TimeoutException" ELSE None,
     match |-> IF hits = {} THEN NoRequest
               ELSE m.requests[CHOOSE i \in hits : \A j \in hits : i <= j]]

-----------------------------------------------------------------------------------------------------------------------------------------------
(* MoneyPuck's private methods.  Each takes the driver's side m and gives  *)
(* it back with err, the exception raised (None when it returns).  A       *)
(* method is written as the chain of its statements: each step takes what  *)
(* the statements before it computed.                                      *)

\* _gen_iso
gen_iso(iso_date) == IF iso_date = None THEN Today ELSE iso_date

\* _go_to_date
go_to_date(m, iso_date) ==
    driver_get(m, DateUrl(gen_iso(iso_date)), DatePageRequests(gen_iso(iso_date)))

\* The first of a set of positions in the document, 0 when there is none.
First(hits) == IF hits = {} THEN 0 ELSE CHOOSE i \in hits : \A j \in hits : i <= j

\* //a/img[@alt="..."]
LinkedImgs(logos, alt) == {i \in DOMAIN logos : logos[i].linked /\ logos[i].alt = alt}

\* //img[@alt="..."]
Imgs(logos, alt) == {i \in DOMAIN logos : logos[i].alt = alt}

\* //a/img[@alt="..."], matched in the home cells only.
LinkedHomeImgs(logos, alt) ==
    {i \in DOMAIN logos : i % 2 = 0 /\ logos[i].linked /\ logos[i].alt = alt}

\* As element_to_be_clickable, looking at the logos of the home cells only.
element_in_home_cell(page, alt) == First(LinkedHomeImgs(Logos(page), alt))

\* As element_to_be_clickable, content with an img that is not a link.
element_present(page, alt) == First(Imgs(Logos(page), alt))

\* WebDriverWait(...).until(EC.element_to_be_clickable((By.XPATH,
\* '//a/img[@alt="..."]'))): the first img with that alt inside a link; 0
\* when none turns up before the wait is over.
element_to_be_clickable(page, alt) == First(LinkedImgs(Logos(page), alt))

\* home.find_element_by_xpath("./../../.."): the table row of a logo.
Container(page, el) == Logos(page)[el].row

\* container.find_element_by_xpath('//img[@alt="..."]'): an XPath that
\* starts with // is matched against the whole document, not the container.
find_element_by_xpath(page, container, alt) == First(Imgs(Logos(page), alt))

Raised(m, e) == [m |-> m, err |-> e, row |-> 0]

\* As click_home, clicking without emptying the capture buffer first.
click_home_keeps_requests(m, container, away_el, env) ==
    IF away_el = 0 THEN Raised(m, "NoSuchElementException")
    ELSE [m |-> click(m, GameUrl(env.style, env.page[container].id),
                      GamePageRequests(env.page[container].id, env)),
          err |-> None,
          row |-> container]

\* _go_to_game, from the except clause on: del self.driver.requests and
\* home.click(), which opens the page of the game in the home logo's row.
click_home(m, container, away_el, env) ==
    IF away_el = 0 THEN Raised(m, "NoSuchElementException")
    ELSE [m |-> click(del_requests(m), GameUrl(env.style, env.page[container].id),
                      GamePageRequests(env.page[container].id, env)),
          err |-> None,
          row |-> container]

\* _go_to_game, from the end of the wait on: the container and the away logo.
find_away(m, home_el, away, env) ==
    IF home_el = 0 THEN Raised(m, "TimeoutException")
    ELSE IF away \notin DOMAIN teams THEN Raised(m, "KeyError")
    ELSE click_home(m, Container(env.page, home_el),
                    find_element_by_xpath(env.page, Container(env.page, home_el),
                                          upper(teams[away])),
                    env)

\* _go_to_game, after _go_to_date: the wait for the home logo.
wait_home(m, home, away, env) ==
    IF home \notin DOMAIN teams THEN Raised(m, "KeyError")
    ELSE find_away(m, element_to_be_clickable(env.page, upper(teams[home])), away, env)

\* _go_to_game
go_to_game(m, home, away, iso_date, env) ==
    wait_home(go_to_date(m, iso_date), home, away, env)

\* str.split("="): the pieces between the "=" tokens.
RECURSIVE split(_)
split(url) ==
    IF \A i \in DOMAIN url : url[i] # "="
    THEN <<url>>
    ELSE LET k == CHOOSE i \in DOMAIN url :
                      url[i] = "=" /\ \A j \in DOMAIN url : url[j] = "=" => i <= j
         IN <<SubSeq(url, 1, k - 1)>> \o split(SubSeq(url, k + 1, Len(url)))

\* As pop, taking the first piece.
pop_first(list) == list[1]

\* list.pop()
pop(list) == list[Len(list)]

\* _gen_stats_regex
gen_stats_regex(game_id) == [kind |-> "playerData", id |-> game_id]

\* _gen_events_regex
gen_events_regex(game_id) == [kind |-> "gameData", id |-> game_id]

\* _find_request, called without a url
find_request(m, regex) == wait_for_request(m, regex)

\* _find_request, called with a url
find_request_at(m, regex, url, loaded) ==
    wait_for_request(driver_get(del_requests(m), url, loaded), regex)

\* _gen_dataframe: decode the bytes and read the csv.
gen_dataframe(body) ==
    [err |-> IF body.valid THEN None ELSE "ParserError", df |-> body.rows]

\* _game_data and _data, the last statement: the dataframe of the match.
to_dataframe(found, row, game_id) ==
    IF found.err # None
    THEN [m |-> found.m, err |-> found.err, row |-> row, game_id |-> game_id,
          match |-> NoRequest, df |-> <<>>]
    ELSE [m |-> found.m, err |-> gen_dataframe(found.match.body).err, row |-> row,
          game_id |-> game_id, match |-> found.match,
          df |-> gen_dataframe(found.match.body).df]

\* _game_data, from csv_fn(game_id) on; csv_fn is "stats" or "events".
await_csv(g, game_id, csv_fn) ==
    to_dataframe(find_request(g.m, IF csv_fn = "stats" THEN gen_stats_regex(game_id)
                                   ELSE gen_events_regex(game_id)),
                 g.row, game_id)

\* _game_data, after _go_to_game: the game id out of the current url.
read_game_id(g, csv_fn) ==
    IF g.err # None
    THEN [m |-> g.m, err |-> g.err, row |-> g.row, game_id |-> <<>>,
          match |-> NoRequest, df |-> <<>>]
    ELSE await_csv(g, pop(split(g.m.current_url)), csv_fn)

\* _game_data
game_data(m, home, away, iso_date, csv_fn, env) ==
    read_game_id(go_to_game(m, home, away, iso_date, env), csv_fn)

\* _data
data(m, regex, url, loaded) ==
    to_dataframe(find_request_at(m, regex, url, loaded), 0, <<>>)

--------------------------------------------------------------------------
(* MoneyPuck's public methods *)

\* str.strip("%"): drop the "%" at both ends.
RECURSIVE strip(_)
strip(text) ==
    IF text = <<>> THEN text
    ELSE IF text[1] = "%" THEN strip(Tail(text))
    ELSE IF text[Len(text)] = "%" THEN strip(SubSeq(text, 1, Len(text) - 1))
    ELSE text

\* The td elements of a table row, els[0] .. els[4].
Tds(row) ==
    <<row.away_pct, Alt[row.away], <<"-">>, Alt[row.home], row.home_pct>>

\* win_probs._process_percent: float(chance.strip("%")) / 100
process_percent(el) == PctNumbers[strip(el)[1]]

\* win_probs._process_logo: self.teams_inv[alt.lower()].upper()
process_logo(el) == upper(teams_inv[lower(el)])

\* A dict display {k1: v1, k2: v2}: the later entry wins on equal keys.
Dict(k1, v1, k2, v2) == (k2 :> v2) @@ (k1 :> v1)

NoDict == [k \in {} |-> 0]

\* As win_probs_row, reading each team's percentage from the other's cell.
win_probs_row_swapped(els) ==
    Dict(process_logo(els[2]), process_percent(els[5]),
         process_logo(els[4]), process_percent(els[1]))

\* win_probs, the body of the loop: away_prob, away_name, home_prob,
\* home_name and the dict appended to wp.
win_probs_row(els) ==
    Dict(process_logo(els[2]), process_percent(els[1]),
         process_logo(els[4]), process_percent(els[5]))

\* win_probs, after _go_to_date: the wait for the table rows and the loop.
table_rows(m, page) ==
    IF page = <<>>
    THEN [m |-> m, err |-> "TimeoutException", wp |-> <<>>]
    ELSE [m |-> m, err |-> None, wp |-> [i \in DOMAIN page |-> win_probs_row(Tds(page[i]))]]

\* win_probs
win_probs(m, iso_date, page) == table_rows(go_to_date(m, iso_date), page)

\* game_current_win_prob, after game_events: the last row and the dict.
current(g, home, away) ==
    IF g.err # None THEN g @@ [probs |-> NoDict]
    ELSE IF g.df = <<>> THEN [g EXCEPT !.err = "IndexError"] @@ [probs |-> NoDict]
    ELSE g @@ [probs |-> Dict(home, g.df[Len(g.df)].homeWinProbability,
                              away, 1000 - g.df[Len(g.df)].homeWinProbability)]

\* game_current_win_prob
game_current_win_prob(m, home, away, iso_date, env) ==
    current(game_data(m, home, away, iso_date, "events", env), home, away)

\* game, the "events" entry, built after the "stats" entry.
game_then_events(s, home, away, iso_date, env) ==
    IF s.err # None THEN s
    ELSE game_data(s.m, home, away, iso_date, "events", env)

\* game: the stats, then the events; the site serves both loads alike.
game(m, home, away, iso_date, env) ==
    game_then_events(game_data(m, home, away, iso_date, "stats", env),
                     home, away, iso_date, env)

-----
(* The record of the last call and what it gave *)

NoCall ==
    [op |-> "none", home |-> <<>>, away |-> <<>>, iso_date |-> None, page |-> <<>>,
     err |-> None, log |-> <<>>, row |-> 0, game_id |-> <<>>, match |-> NoRequest,
     df |-> <<>>, wp |-> <<>>, probs |-> NoDict, stale_hit |-> FALSE]

\* stale_hit: the buffer held, before the call, a request like the one the
\* call's wait_for_request gave back.
Returned(call, out) ==
    /\ requests' = out.m.requests
    /\ current_url' = out.m.current_url
    /\ res' = [f \in DOMAIN NoCall |->
                 IF f = "log" THEN out.m.log
                 ELSE IF f = "stale_hit"
                 THEN /\ "match" \in DOMAIN out
                      /\ out.match.kind # "none"
                      /\ \E i \in DOMAIN requests : Matches(requests[i], out.match)
                 ELSE IF f \in DOMAIN call THEN call[f]
                 ELSE IF f \in DOMAIN out THEN out[f]
                 ELSE NoCall[f]]
    /\ UNCHANGED <<scope, driver, teams, teams_inv>>

GameCall(op, home, away, iso_date, env) ==
    [op |-> op, home |-> home, away |-> away, iso_date |-> iso_date, page |-> env.page]

--------------------------------------------------------------------------
(* Actions *)

Init ==
    /\ scope = "none"
    /\ driver = "none"
    /\ teams = NoTeams
    /\ teams_inv = NoTeams
    /\ requests = <<>>
    /\ current_url = <<>>
    /\ res = NoCall

\* __init__: start the browser, then load nhl_teams.yaml; when the file
\* cannot be read or parsed the exception leaves the constructor.
MoneyPuckInit(yaml_ok) ==
    /\ scope = "none"
    /\ driver' = "running"
    /\ IF yaml_ok
       THEN /\ teams' = nhl_teams_yaml
            /\ teams_inv' = invert(nhl_teams_yaml)
            /\ scope' = "constructed"
       ELSE /\ UNCHANGED <<teams, teams_inv>>
            /\ scope' = "failed"
    /\ UNCHANGED <<requests, current_url, res>>

\* __enter__
Enter ==
    /\ scope = "constructed"
    /\ scope' = "inside"
    /\ UNCHANGED <<driver, teams, teams_inv, requests, current_url, res>>

\* __exit__, run by the with statement when its body returns or raises.
Exit ==
    /\ scope = "inside"
    /\ driver' = "quit"
    /\ scope' = "exited"
    /\ UNCHANGED <<teams, teams_inv, requests, current_url, res>>

GoToGame(home, away, iso_date, env) ==
    /\ scope = "inside"
    /\ \E out \in {go_to_game(Machine, home, away, iso_date, env)} :
          Returned(GameCall("go_to_game", home, away, iso_date, env), out)

GameStats(home, away, iso_date, env) ==
    /\ scope = "inside"
    /\ \E out \in {game_data(Machine, home, away, iso_date, "stats", env)} :
          Returned(GameCall("game_stats", home, away, iso_date, env), out)

GameEvents(home, away, iso_date, env) ==
    /\ scope = "inside"
    /\ \E out \in {game_data(Machine, home, away, iso_date, "events", env)} :
          Returned(GameCall("game_events", home, away, iso_date, env), out)

Game(home, away, iso_date, env) ==
    /\ scope = "inside"
    /\ \E out \in {game(Machine, home, away, iso_date, env)} :
          Returned(GameCall("game", home, away, iso_date, env), out)

GameCurrentWinProb(home, away, iso_date, env) ==
    /\ scope = "inside"
    /\ \E out \in {game_current_win_prob(Machine, home, away, iso_date, env)} :
          Returned(GameCall("game_current_win_prob", home, away, iso_date, env), out)

WinProbs(iso_date, page) ==
    /\ scope = "inside"
    /\ \E out \in {win_probs(Machine, iso_date, page)} :
          Returned([op |-> "win_probs", iso_date |-> iso_date, page |-> page], out)

PowerRankings(env) ==
    /\ scope = "inside"
    /\ \E out \in {data(Machine, [kind |-> "rankings.csv", id |-> <<>>], PowerUrl, TablePageRequests("power.htm", "rankings.csv", env))} :
          Returned([op |-> "power_rankings"], out)

PlayoffOdds(env) ==
    /\ scope = "inside"
    /\ \E out \in {data(Machine, [kind |-> "simulations_recent.csv", id |-> <<>>], PredictionsUrl, TablePageRequests("predictions.htm", "simulations_recent.csv", env))} :
          Returned([op |-> "playoff_odds"], out)

--------------------------------------------------------------------------
(* The arguments and the pages the calls are tried on *)

\* The games of a day, in page order: away team, home team, game id.
Schedule ==
    << <<TBL, CBJ, "2020020071">>, <<MTL, VAN, "2020020075">>, <<CHI, DET, "2020020068">> >>

Min(a, b) == IF a < b THEN a ELSE b

PctPairs == {<<"45.7", "54.3">>, <<"33.4", "66.7">>}

\* Date pages listing the first n games of the schedule, every game open or
\* not yet open, every row showing one of the percentage pairs in Pcts.
PagesOf(n, Pcts) ==
    UNION {
      {[i \in 1..k |-> Row(Schedule[i][1], Schedule[i][2], p[i], c[i], Schedule[i][3])] :
          p \in [1..k -> Pcts], c \in [1..k -> BOOLEAN]} :
      k \in 0..Min(n, Len(Schedule))}

\* What win_probs is tried on.
Pages == PagesOf(MaxRows, PctPairs)

\* What the game methods are tried on: they never read a percentage cell.
GamePages == PagesOf(MaxRows, {<<"45.7", "54.3">>})

\* The pages of the session specification list at most the first game.
SessionPages == PagesOf(1, {<<"45.7", "54.3">>})

HomeWinProbabilities == {250, 700}

\* csv bodies: one that cannot be decoded or parsed, and the well-formed
\* ones of up to n rows.
Bodies(n) ==
    {[valid |-> FALSE, rows |-> <<>>]} \cup
    {[valid |-> TRUE, rows |-> r] :
        r \in UNION {[1..k -> [homeWinProbability : HomeWinProbabilities]] : k \in 0..n}}

\* What a page load brings: the date page shown, the style of the game
\* links, whether the page fetches its csv files and with which body.
Envs(pages, styles, bodies) ==
    [page : pages, style : styles, fetch : {TRUE}, body : bodies] \cup
    [page : pages, style : styles, fetch : {FALSE}, body : {NoBody}]

TableEnvs(bodies) ==
    [fetch : {TRUE}, body : bodies] \cup [fetch : {FALSE}, body : {NoBody}]

IsoDates == {None, "2021-01-23"}

\* The session specification leaves the date out: the pages are today's.
SessionDates == {None}

\* Team codes as a caller may spell them.
Spellings(codes) == codes \cup {upper(c) : c \in codes} \cup {capitalize(c) : c \in codes}

CallCodes == Spellings({CBJ, TBL, MTL, VAN})

SessionCodes == {CBJ, TBL}

\* The session specification tries one undecodable and one one-row body.
SessionBodies ==
    {[valid |-> FALSE, rows |-> <<>>],
     [valid |-> TRUE, rows |-> <<[homeWinProbability |-> 700]>>]}

SessionEnvs == Envs(SessionPages, {"query", "path"}, SessionBodies)
SessionTableEnvs == TableEnvs(SessionBodies)
CallEnvs == Envs(GamePages, {"query", "path"}, Bodies(MaxCsvRows))

--------------------------------------------------------------------------
(* Specifications *)

Fits == Len(requests') <= MaxRequests

\* A session: construction, the with block, any sequence of calls, exit.
\* A call that raised may be followed by __exit__ or, when the caller caught
\* the exception, by further calls.
Next ==
    \/ \E yaml_ok \in BOOLEAN : MoneyPuckInit(yaml_ok)
    \/ Enter
    \/ Exit
    \/ \E h \in SessionCodes, a \in SessionCodes, d \in SessionDates, env \in SessionEnvs :
          GoToGame(h, a, d, env) /\ Fits
    \/ \E h \in SessionCodes, a \in SessionCodes, d \in SessionDates, env \in SessionEnvs :
          GameStats(h, a, d, env) /\ Fits
    \/ \E h \in SessionCodes, a \in SessionCodes, d \in SessionDates, env \in SessionEnvs :
          GameEvents(h, a, d, env) /\ Fits
    \/ \E h \in SessionCodes, a \in SessionCodes, d \in SessionDates, env \in SessionEnvs :
          Game(h, a, d, env) /\ Fits
    \/ \E h \in SessionCodes, a \in SessionCodes, d \in SessionDates, env \in SessionEnvs :
          GameCurrentWinProb(h, a, d, env) /\ Fits
    \/ \E d \in SessionDates, page \in SessionPages : WinProbs(d, page) /\ Fits
    \/ \E env \in SessionTableEnvs : PowerRankings(env) /\ Fits
    \/ \E env \in SessionTableEnvs : PlayoffOdds(env) /\ Fits

Spec == Init /\ [][Next]_vars

FirstCall == res.op = "none"

\* One call per session, on every argument and page of the larger sets.
NextCall ==
    \/ \E yaml_ok \in BOOLEAN : MoneyPuckInit(yaml_ok)
    \/ Enter
    \/ Exit
    \/ FirstCall /\ \E h \in CallCodes, a \in CallCodes, d \in IsoDates, env \in CallEnvs :
          GoToGame(h, a, d, env)
    \/ FirstCall /\ \E h \in CallCodes, a \in CallCodes, d \in IsoDates, env \in CallEnvs :
          GameStats(h, a, d, env)
    \/ FirstCall /\ \E h \in CallCodes, a \in CallCodes, d \in IsoDates, env \in CallEnvs :
          GameEvents(h, a, d, env)
    \/ FirstCall /\ \E h \in CallCodes, a \in CallCodes, d \in IsoDates, env \in CallEnvs :
          GameCurrentWinProb(h, a, d, env)
    \/ FirstCall /\ \E d \in IsoDates, page \in Pages : WinProbs(d, page)

SpecCall == Init /\ [][NextCall]_vars

--------------------------------------------------------------------------
(* Properties *)

Range(f) == {f[x] : x \in DOMAIN f}

GameOps == {"go_to_game", "game_stats", "game_events", "game", "game_current_win_prob"}
GameDataOps == {"game_stats", "game_events", "game_current_win_prob"}

\* The call named known teams as the directory spells them.
KnownCodes == res.home \in DOMAIN nhl_teams_yaml /\ res.away \in DOMAIN nhl_teams_yaml

\* The rows of the call's date page that list the game between its two teams.
FixtureRows ==
    {i \in DOMAIN res.page :
        \/ res.page[i].home = res.home /\ res.page[i].away = res.away
        \/ res.page[i].home = res.away /\ res.page[i].away = res.home}

\* The driver calls that load a page.
Navigations == {"get", "click"}

\* The last navigation before the k-th driver call of the operation.
LastNavigationBefore(k) ==
    CHOOSE i \in 1..(k - 1) :
        /\ res.log[i] \in Navigations
        /\ \A j \in (i + 1)..(k - 1) : res.log[j] \notin Navigations

\* C1 as stated: in win_probs, game_stats, game_events, power_rankings and
\* playoff_odds every page load by URL (driver.get) comes right after the
\* capture buffer was emptied, and no request captured before a navigation is
\* what a later wait_for_request gives back.
C1_EveryGetClearsFirst ==
    res.op \in {"win_probs", "game_stats", "game_events", "power_rankings", "playoff_odds"} =>
        /\ \A i \in DOMAIN res.log :
              res.log[i] = "get" => i > 1 /\ res.log[i - 1] = "del"
        /\ ~res.match.stale

\* C1, amended: every wait_for_request follows a navigation (the load of a
\* table page, or the click that opens a game page) that came right after the
\* buffer was emptied, and the request it gives back is never one captured
\* before that navigation; the load of a date page is not preceded by a clear.
C1_NoStaleMatch ==
    /\ \A k \in DOMAIN res.log :
          res.log[k] = "wait_for_request" =>
              /\ \E i \in 1..(k - 1) : res.log[i] \in Navigations
              /\ LastNavigationBefore(k) > 1
              /\ res.log[LastNavigationBefore(k) - 1] = "del"
    /\ ~res.match.stale
    /\ res.op = "win_probs" => res.log = <<"get">>

\* A call got its request although the buffer held an older one like it.
C1_Witness ==
    /\ res.stale_hit
    /\ FixtureRows # {}
    /\ res.match.kind = "gameData"
    /\ ~res.match.stale

\* C2: when the scope that owns the session is left - by __exit__ or by an
\* exception out of the constructor - the browser is no longer running.
C2_BrowserTerminated ==
    scope \in {"exited", "failed"} => driver # "running"

\* C3: to_game with two different known teams that play no game against
\* each other on the date page raises NoSuchElementException, whatever else
\* the page lists.
C3_NotFound ==
    (res.op = "go_to_game" /\ KnownCodes /\ res.home # res.away /\ FixtureRows = {})
        => res.err = "NoSuchElementException"

\* C4: a game call whose team codes are known in some letter case does not
\* fail on the lookup of a code.
C4_CaseInsensitive ==
    (/\ res.op \in GameOps
     /\ lower(res.home) \in DOMAIN nhl_teams_yaml
     /\ lower(res.away) \in DOMAIN nhl_teams_yaml)
        => res.err # "KeyError"

\* C5: for a game between the two teams of the call that is listed and open,
\* the call clicks into that game's page whichever of the two it names as
\* home, and the game id it derives is the one of that page's address.
C5_OrderIndependent ==
    \A i \in FixtureRows :
        (res.op \in GameOps /\ KnownCodes /\ res.page[i].clickable) =>
            /\ "click" \in Range(res.log)
            /\ res.row = i
            /\ current_url \in {GameUrl(st, res.page[i].id) : st \in {"query", "path"}}
            /\ res.op \in GameDataOps => res.game_id = pop(split(current_url))

\* The call named the away team of an open game as home and was taken there.
C5_Witness ==
    /\ res.op = "game_stats"
    /\ res.err = None
    /\ \E i \in FixtureRows :
          /\ res.page[i].away = res.home
          /\ res.page[i].home = res.away
          /\ res.row = i

\* C6: a game_current_win_prob that returns gives exactly two entries, one
\* for each team named, and their values add up to 1.
C6_TwoEntriesSumToOne ==
    (res.op = "game_current_win_prob" /\ res.err = None) =>
        /\ DOMAIN res.probs = {res.home, res.away}
        /\ Cardinality(DOMAIN res.probs) = 2
        /\ res.probs[res.home] + res.probs[res.away] = 1000

\* The names win_probs gives the teams of a row: the codes in upper case.
AwayName(row) == upper(row.away)
HomeName(row) == upper(row.home)

\* What a percentage cell shows, in tenths of a percent.
Shown(cell) == PctNumbers[cell[1]]

\* C7 as stated: win_probs gives one entry per row in page order, each with
\* the row's away and home team, and the two values of every entry add up
\* to 1.
C7_EntriesSumToOne ==
    (res.op = "win_probs" /\ res.err = None) =>
        /\ Len(res.wp) = Len(res.page)
        /\ \A i \in DOMAIN res.wp :
              /\ DOMAIN res.wp[i] = {AwayName(res.page[i]), HomeName(res.page[i])}
              /\ res.wp[i][AwayName(res.page[i])] + res.wp[i][HomeName(res.page[i])] = 1000

\* C7, amended: win_probs gives one entry per row in page order, each with
\* the row's away and home team, every team with the percentage its own cell
\* shows divided by 100; the two add up to 1 just when the two percentages
\* shown add up to 100.
C7_EntriesAsShown ==
    (res.op = "win_probs" /\ res.err = None) =>
        /\ Len(res.wp) = Len(res.page)
        /\ \A i \in DOMAIN res.wp :
              /\ DOMAIN res.wp[i] = {AwayName(res.page[i]), HomeName(res.page[i])}
              /\ res.wp[i][AwayName(res.page[i])] = Shown(res.page[i].away_pct)
              /\ res.wp[i][HomeName(res.page[i])] = Shown(res.page[i].home_pct)
              /\ (res.wp[i][AwayName(res.page[i])] + res.wp[i][HomeName(res.page[i])] = 1000)
                    <=> (Shown(res.page[i].away_pct) + Shown(res.page[i].home_pct) = 1000)

\* win_probs returned for a page of two games, one of them showing
\* percentages that do not add up to 100.
C7_Witness ==
    /\ res.op = "win_probs"
    /\ res.err = None
    /\ Len(res.wp) = 2
    /\ \E i \in DOMAIN res.page :
          Shown(res.page[i].away_pct) + Shown(res.page[i].home_pct) # 1000

\* C8: when the game between the two teams of the call is listed but its
\* logos are not links yet, to_game raises TimeoutException, not
\* NoSuchElementException, and clicks nothing.
C8_NotReady ==
    \A i \in FixtureRows :
        (res.op \in GameOps /\ KnownCodes /\ ~res.page[i].clickable) =>
            /\ res.err = "TimeoutException"
            /\ "click" \notin Range(res.log)
            /\ "del" \notin Range(res.log)

\* to_game was called for a listed game that is not open, next to an open one.
C8_Witness ==
    /\ res.op = "go_to_game"
    /\ res.err = "TimeoutException"
    /\ \E i \in FixtureRows : ~res.page[i].clickable
    /\ \E j \in DOMAIN res.page : res.page[j].clickable

\* The tokens of a url after its last "=", all of it when it has none.
HasEquals(url) == \E i \in DOMAIN url : url[i] = "="

AfterLastEquals(url) ==
    IF ~HasEquals(url) THEN url
    ELSE LET k == CHOOSE i \in DOMAIN url :
                      url[i] = "=" /\ \A j \in DOMAIN url : url[j] = "=" => j <= i
         IN SubSeq(url, k + 1, Len(url))

\* The call went through to_game and opened a game page.
Opened == res.op \in GameDataOps /\ "click" \in Range(res.log)

\* C9 as stated, for the calls that name a listed game: the game id is the
\* last "="-delimited token of the address of the page to_game opened; when
\* that address has no "=" the call fails with MalformedURL and never waits
\* for a request.
C9_MalformedURL ==
    (Opened /\ FixtureRows # {}) =>
        /\ res.game_id = AfterLastEquals(current_url)
        /\ ~HasEquals(current_url) =>
              /\ res.err = "MalformedURL"
              /\ "wait_for_request" \notin Range(res.log)

\* C9, amended: the game id is the last "="-delimited token of the address
\* of the page to_game opened; when that address has no "=" the game id is
\* the whole address, no MalformedURL is raised, and the call goes on to wait
\* for a request matching the pattern built from it, which ends in
\* TimeoutException when no captured request matches.
C9_WholeUrlAsGameId ==
    Opened =>
        /\ res.game_id = AfterLastEquals(current_url)
        /\ "wait_for_request" \in Range(res.log)
        /\ res.err # "MalformedURL"
        /\ ~HasEquals(current_url) =>
              /\ res.game_id = current_url
              /\ res.match.kind = "none" => res.err = "TimeoutException"

\* A game page without "=" in its address was opened and its csv awaited.
C9_Witness ==
    /\ Opened
    /\ FixtureRows # {}
    /\ ~HasEquals(current_url)
    /\ res.err = "TimeoutException"
    /\ \E i \in DOMAIN requests : requests[i].kind = "gameData"

\* C10: when game_current_win_prob returns for the game between its two
\* teams, the home team of that game has the last row's homeWinProbability
\* and the away team has the rest, whichever order the teams were named in.
C10_KeyedByActualHome ==
    \A i \in FixtureRows :
        (res.op = "game_current_win_prob" /\ res.err = None /\ res.row = i) =>
            /\ res.probs[res.page[i].home] = res.df[Len(res.df)].homeWinProbability
            /\ res.probs[res.page[i].away] = 1000 - res.df[Len(res.df)].homeWinProbability

====
